---- MODULE Spec2Model ----
(***************************************************************************)
(* The tracer-configuration pipeline of the CodeQL action: the init run    *)
(* (probe every traced language, aggregate the tracer configurations,      *)
(* publish them) and the finish run (clear the tracer configuration, then  *)
(* finalize and analyze the databases).                                    *)
(*                                                                         *)
(* A JavaScript string is a sequence of one-character strings, a Buffer a  *)
(* sequence of bytes (0..255), and an object a sequence of <<key, value>>  *)
(* pairs in insertion order, as Object.keys / Object.entries list them.    *)
(***************************************************************************)
EXTENDS Integers, Sequences, FiniteSets, TLC

-----------------------------------------------------------------------------
(* Strings.                                                                *)

LF == "\n"
CR == "\r"
NUL == "\\0"
EQ == "="
\* U+00E9, a character whose UTF-8 encoding takes two bytes.
Eacute == "&eacute;"

\* The value JavaScript calls undefined, where a string is expected.
Undefined == <<"undefined">>

RECURSIVE Concat(_)
Concat(seqs) ==
    IF seqs = <<>> THEN <<>> ELSE Head(seqs) \o Concat(Tail(seqs))

RECURSIVE Join(_, _)
Join(lines, sep) ==
    IF lines = <<>> THEN <<>>
    ELSE IF Len(lines) = 1 THEN lines[1]
    ELSE lines[1] \o sep \o Join(Tail(lines), sep)

\* s.split(/\r?\n/): a separator is "\n" or "\r\n"; a lone "\r" stays in its line.
RECURSIVE SplitFrom(_, _, _)
SplitFrom(s, i, cur) ==
    IF i > Len(s) THEN <<cur>>
    ELSE IF s[i] = CR /\ i < Len(s) /\ s[i + 1] = LF
         THEN <<cur>> \o SplitFrom(s, i + 2, <<>>)
    ELSE IF s[i] = LF THEN <<cur>> \o SplitFrom(s, i + 1, <<>>)
    ELSE SplitFrom(s, i + 1, Append(cur, s[i]))

SplitLines(s) == SplitFrom(s, 1, <<>>)

\* lines.slice(2)
Slice2(lines) == IF Len(lines) <= 2 THEN <<>> ELSE SubSeq(lines, 3, Len(lines))

StartsWith(s, prefix) ==
    Len(s) >= Len(prefix) /\ SubSeq(s, 1, Len(prefix)) = prefix

-----------------------------------------------------------------------------
(* Numbers: a JavaScript number is an integer or NaN.                      *)

NaN == [nan |-> TRUE, val |-> 0]
Num(n) == [nan |-> FALSE, val |-> n]

NumAdd(a, b) == IF a.nan \/ b.nan THEN NaN ELSE Num(a.val + b.val)

DigitChars == <<"0", "1", "2", "3", "4", "5", "6", "7", "8", "9">>
IsDigit(c) == \E d \in 1..10 : DigitChars[d] = c
DigitVal(c) == (CHOOSE d \in 1..10 : DigitChars[d] = c) - 1
IsSpace(c) == c \in {" ", "\t", LF, CR}

RECURSIVE SkipSpaces(_)
SkipSpaces(s) ==
    IF s # <<>> /\ IsSpace(Head(s)) THEN SkipSpaces(Tail(s)) ELSE s

RECURSIVE DigitsValue(_, _)
DigitsValue(s, acc) ==
    IF s # <<>> /\ IsDigit(Head(s))
    THEN DigitsValue(Tail(s), acc * 10 + DigitVal(Head(s)))
    ELSE acc

\* parseInt(line, 10): leading white space is skipped, then an optional sign, then
\* the longest run of digits; no digit there (or line undefined) gives NaN.
ParseInt(line) ==
    IF line = Undefined THEN NaN
    ELSE LET t == SkipSpaces(line)
             neg == t # <<>> /\ Head(t) = "-"
             u == IF t # <<>> /\ Head(t) \in {"-", "+"} THEN Tail(t) ELSE t
         IN IF u = <<>> \/ ~IsDigit(Head(u)) THEN NaN
            ELSE Num((IF neg THEN -1 ELSE 1) * DigitsValue(u, 0))

RECURSIVE NatToString(_)
NatToString(n) ==
    IF n < 10 THEN <<DigitChars[n + 1]>>
    ELSE Append(NatToString(n \div 10), DigitChars[(n % 10) + 1])

\* totalCount.toString(10)
NumToString(x) ==
    IF x.nan THEN <<"N", "a", "N">>
    ELSE IF x.val < 0 THEN <<"-">> \o NatToString(-x.val)
    ELSE NatToString(x.val)

-----------------------------------------------------------------------------
(* Buffers.                                                                *)

\* The code points of the characters that occur in environment entries.
CodePointTable ==
    << <<NUL, 0>>, <<"1", 49>>, <<"2", 50>>, <<EQ, 61>>, <<"A", 65>>, <<"C", 67>>,
       <<"D", 68>>, <<"E", 69>>, <<"H", 72>>, <<"L", 76>>, <<"M", 77>>, <<"N", 78>>,
       <<"O", 79>>, <<"Q", 81>>, <<"R", 82>>, <<"S", 83>>, <<"U", 85>>, <<"X", 88>>,
       <<"Y", 89>>, <<"_", 95>>, <<Eacute, 233>> >>

CodePoint(c) ==
    LET i == CHOOSE j \in 1..Len(CodePointTable) : CodePointTable[j][1] = c
    IN CodePointTable[i][2]

CharOf(cp) ==
    LET i == CHOOSE j \in 1..Len(CodePointTable) : CodePointTable[j][2] = cp
    IN CodePointTable[i][1]

\* UTF-8 of one code point below 0x800: one byte below 0x80, else two.
Utf8Char(cp) ==
    IF cp < 128 THEN <<cp>>
    ELSE <<192 + (cp \div 64), 128 + (cp % 64)>>

RECURSIVE Utf8(_)
Utf8(s) == IF s = <<>> THEN <<>> ELSE Utf8Char(CodePoint(Head(s))) \o Utf8(Tail(s))

\* buffer.writeInt32LE(n, 0) on Buffer.alloc(4)
\* (two's complement, little end first)
Int32LE(n) ==
    <<n % 256, (n \div 256) % 256, (n \div 65536) % 256, (n \div 16777216) % 256>>

-----------------------------------------------------------------------------
(* Objects: sequences of <<key, value>> pairs, keys distinct.              *)

Keys(obj) == [i \in 1..Len(obj) |-> obj[i][1]]
Has(obj, k) == \E i \in 1..Len(obj) : obj[i][1] = k
Get(obj, k) == obj[CHOOSE i \in 1..Len(obj) : obj[i][1] = k][2]

\* obj[k] = v
Put(obj, k, v) ==
    IF Has(obj, k)
    THEN [i \in 1..Len(obj) |-> IF obj[i][1] = k THEN <<k, v>> ELSE obj[i]]
    ELSE Append(obj, <<k, v>>)

\* languages.indexOf(x), counted from 1; 0 when absent (JavaScript's -1)
IndexOf(seq, x) ==
    IF \E i \in 1..Len(seq) : seq[i] = x
    THEN CHOOSE i \in 1..Len(seq) : seq[i] = x /\ \A j \in 1..(i - 1) : seq[j] # x
    ELSE 0

\* process.env and the exported variables: functions from names to values.
EnvSet(env, k, v) == [n \in DOMAIN env \cup {k} |-> IF n = k THEN v ELSE env[n]]
EnvDelete(env, k) == [n \in DOMAIN env \ {k} |-> env[n]]

-----------------------------------------------------------------------------
(* Names.                                                                  *)

ODASA_TRACER_CONFIGURATION ==
    <<"O", "D", "A", "S", "A", "_", "T", "R", "A", "C", "E", "R", "_",
      "C", "O", "N", "F", "I", "G", "U", "R", "A", "T", "I", "O", "N">>
LD_PRELOAD == <<"L", "D", "_", "P", "R", "E", "L", "O", "A", "D">>
DYLD_INSERT_LIBRARIES ==
    <<"D", "Y", "L", "D", "_", "I", "N", "S", "E", "R", "T", "_",
      "L", "I", "B", "R", "A", "R", "I", "E", "S">>
SEMMLE_RUNNER == <<"S", "E", "M", "M", "L", "E", "_", "R", "U", "N", "N", "E", "R">>
CODEQL_PREFIX == <<"C", "O", "D", "E", "Q", "L", "_">>

CRITICAL_TRACER_VARS ==
    { <<"S", "E", "M", "M", "L", "E", "_", "P", "R", "E", "L", "O", "A", "D", "_",
        "l", "i", "b", "t", "r", "a", "c", "e">>,
      SEMMLE_RUNNER,
      <<"S", "E", "M", "M", "L", "E", "_", "C", "O", "P", "Y", "_", "E", "X", "E", "C",
        "U", "T", "A", "B", "L", "E", "S", "_", "R", "O", "O", "T">>,
      <<"S", "E", "M", "M", "L", "E", "_", "D", "E", "P", "T", "R", "A", "C", "E", "_",
        "S", "O", "C", "K", "E", "T">>,
      <<"S", "E", "M", "M", "L", "E", "_", "J", "A", "V", "A", "_", "T", "O", "O", "L", "_",
        "O", "P", "T", "I", "O", "N", "S">> }

Cpp == <<"c", "p", "p">>
Java == <<"j", "a", "v", "a">>
Csharp == <<"c", "s", "h", "a", "r", "p">>
Go == <<"g", "o">>
Python == <<"p", "y", "t", "h", "o", "n">>

\* The languages whose build is traced.
TracedLanguages == {Cpp, Java, Csharp}

\* path.resolve(util.workspaceFolder(), ...)
CompoundLogPath ==
    <<"/", "w", "/", "c", "o", "m", "p", "o", "u", "n", "d", "-", "b", "u", "i", "l", "d",
      "-", "t", "r", "a", "c", "e", "r", ".", "l", "o", "g">>
CompoundSpecPath ==
    <<"/", "w", "/", "c", "o", "m", "p", "o", "u", "n", "d", "-", "s", "p", "e", "c">>
EnvironmentSuffix == <<".", "e", "n", "v", "i", "r", "o", "n", "m", "e", "n", "t">>
CompoundEnvPath == CompoundSpecPath \o EnvironmentSuffix

-----------------------------------------------------------------------------
(* tracerConfig: the probe of one traced language.                         *)

TracerConfig(spec, env) == [spec |-> spec, env |-> env]

\* The variables of the dump that are kept: those the current environment does not
\* have, the critical ones and the CODEQL_ ones; never ODASA_TRACER_CONFIGURATION.
KeepVar(key, penv) ==
    /\ key # ODASA_TRACER_CONFIGURATION
    /\ \/ key \notin DOMAIN penv
       \/ key \in CRITICAL_TRACER_VARS
       \/ StartsWith(key, CODEQL_PREFIX)

\* The TracerConfig built from the parsed environment dump.
tracerConfig(dump, penv) ==
    TracerConfig(
        IF Has(dump, ODASA_TRACER_CONFIGURATION)
        THEN Get(dump, ODASA_TRACER_CONFIGURATION) ELSE Undefined,
        SelectSeq(dump, LAMBDA e : KeepVar(e[1], penv)))

-----------------------------------------------------------------------------
(* concatTracerConfigs.                                                    *)

NoError == [type |-> "none", name |-> <<>>, first |-> <<>>, second |-> <<>>]
IncompatibleValues(name, v1, v2) ==
    [type |-> "IncompatibleValues", name |-> name, first |-> v1, second |-> v2]
IOError(path) == [type |-> "IOError", name |-> path, first |-> <<>>, second |-> <<>>]
\* fs.readFileSync(undefined)
InvalidPath == [type |-> "TypeError", name |-> Undefined, first |-> <<>>, second |-> <<>>]

\* (A merge that keeps the first value of a variable and drops a later, different
\* one.)
RECURSIVE MergeEntriesFirstWins(_, _)
MergeEntriesFirstWins(entries, acc) ==
    IF entries = <<>> THEN acc
    ELSE IF \E i \in 1..Len(acc.env) : acc.env[i][1] = Head(entries)[1]
         THEN MergeEntriesFirstWins(Tail(entries), acc)
         ELSE MergeEntriesFirstWins(Tail(entries),
                  [acc EXCEPT !.env = Append(@, Head(entries)), !.envSize = @ + 1])

\* The merge loop over the entries of every config, in order: the merged env, its
\* size, and the error thrown at the first entry whose value differs.
RECURSIVE MergeEntries(_, _)
MergeEntries(entries, acc) ==
    IF entries = <<>> \/ acc.error # NoError THEN acc
    ELSE LET name == Head(entries)[1]
             value == Head(entries)[2]
         IN IF Has(acc.env, name)
            THEN IF Get(acc.env, name) # value
                 THEN [acc EXCEPT !.error =
                          IncompatibleValues(name, Get(acc.env, name), value)]
                 ELSE MergeEntries(Tail(entries), acc)
            ELSE MergeEntries(Tail(entries),
                     [acc EXCEPT !.env = Append(@, <<name, value>>),
                                 !.envSize = @ + 1])

MergeEnvs(configs) ==
    MergeEntries(Concat([i \in 1..Len(configs) |-> configs[i][2].env]),
                 [env |-> <<>>, envSize |-> 0, error |-> NoError])

\* (An order that leaves cpp where the keys have it.)
ConcatOrderAsGiven(configs) == Keys(configs)

\* (An order that moves cpp to the end and keeps the others in their order.)
ConcatOrderStable(configs) ==
    SelectSeq(Keys(configs), LAMBDA l : l # Cpp)
        \o SelectSeq(Keys(configs), LAMBDA l : l = Cpp)

\* The concatenation order: the keys, with cpp and the last key exchanged.
ConcatOrder(configs) ==
    LET languages == Keys(configs)
        cppIndex == IndexOf(languages, Cpp)
        n == Len(languages)
    IN IF cppIndex # 0
       THEN [i \in 1..n |-> IF i = n THEN languages[cppIndex]
                            ELSE IF i = cppIndex THEN languages[n]
                            ELSE languages[i]]
       ELSE languages

\* (A read loop that keeps the count of the last spec file instead of the sum.)
RECURSIVE ReadSpecsLastCount(_, _, _, _)
ReadSpecsLastCount(languages, configs, files, acc) ==
    IF languages = <<>> \/ acc.error # NoError THEN acc
    ELSE LET path == configs[CHOOSE i \in 1..Len(configs) :
                                 configs[i][1] = Head(languages)][2].spec
         IN IF path \notin DOMAIN files
            THEN [acc EXCEPT !.error =
                     [type |-> "IOError", name |-> path, first |-> <<>>, second |-> <<>>]]
            ELSE LET lines == SplitLines(files[path])
                 IN ReadSpecsLastCount(Tail(languages), configs, files,
                        [acc EXCEPT !.totalCount =
                                        ParseInt(IF Len(lines) >= 2 THEN lines[2]
                                                 ELSE Undefined),
                                    !.totalLines = @ \o Slice2(lines)])

\* The read loop: every spec file in order, its count added and its lines after the
\* second appended; a file that cannot be read throws.
RECURSIVE ReadSpecs(_, _, _, _)
ReadSpecs(languages, configs, files, acc) ==
    IF languages = <<>> \/ acc.error # NoError THEN acc
    ELSE LET path == Get(configs, Head(languages)).spec
         IN IF path = Undefined
            THEN [acc EXCEPT !.error = InvalidPath]
            ELSE IF path \notin DOMAIN files
            THEN [acc EXCEPT !.error = IOError(path)]
            ELSE LET lines == SplitLines(files[path])
                     count == ParseInt(IF Len(lines) >= 2 THEN lines[2] ELSE Undefined)
                 IN ReadSpecs(Tail(languages), configs, files,
                        [acc EXCEPT !.totalCount = NumAdd(@, count),
                                    !.totalLines = @ \o Slice2(lines)])

\* (A record whose length counts the characters and not the bytes.)
BlobRecordCharLength(key, value) ==
    Int32LE(Len(key) + Len(value) + 2) \o Utf8(key \o <<EQ>> \o value \o <<NUL>>)

\* One record of the environment blob: the length, then "key=value\0".
BlobRecord(key, value) ==
    LET lineBuffer == Utf8(key \o <<EQ>> \o value \o <<NUL>>)
    IN Int32LE(Len(lineBuffer)) \o lineBuffer

EnvironmentBlob(env, envSize) ==
    Int32LE(envSize)
        \o Concat([i \in 1..Len(env) |-> BlobRecord(env[i][1], env[i][2])])

CompoundSpecContent(totalCount, totalLines) ==
    Join(<<CompoundLogPath, NumToString(totalCount)>> \o totalLines, <<LF>>)

\* fs.writeFileSync(path, content): "ok" writes the file; "open_fails" throws before
\* the file is created; "write_fails" throws with the file created and still empty.
WriteOutcomes == {"ok", "open_fails", "write_fails"}
WriteFile(files, path, content, outcome) ==
    IF outcome = "open_fails" THEN files
    ELSE [p \in DOMAIN files \cup {path} |->
            IF p = path THEN (IF outcome = "ok" THEN content ELSE <<>>) ELSE files[p]]

\* How the two writes of concatTracerConfigs can end: the second is reached only
\* when the first succeeds.
WriteCases ==
    {<<"ok", w>> : w \in WriteOutcomes} \cup {<<w, "ok">> : w \in WriteOutcomes}

Returned(env, spec) == [kind |-> "returned", env |-> env, spec |-> spec, error |-> NoError]
Thrown(err) == [kind |-> "thrown", env |-> <<>>, spec |-> Undefined, error |-> err]

\* (An aggregation that looks for two values of one variable only after its writes.)
concatChecksAfterWriting(configs, files, specWrite, envWrite) ==
    LET merged == MergeEnvs(configs)
        read == ReadSpecs(ConcatOrder(configs), configs, files,
                    [totalCount |-> Num(0), totalLines |-> <<>>, error |-> NoError])
        files1 == WriteFile(files, CompoundSpecPath,
                      CompoundSpecContent(read.totalCount, read.totalLines), specWrite)
        files2 == WriteFile(files1, CompoundEnvPath,
                      EnvironmentBlob(merged.env, merged.envSize), envWrite)
    IN IF read.error # NoError THEN [files |-> files, result |-> Thrown(read.error)]
       ELSE IF specWrite # "ok"
            THEN [files |-> files1, result |-> Thrown(IOError(CompoundSpecPath))]
       ELSE IF envWrite # "ok"
            THEN [files |-> files2, result |-> Thrown(IOError(CompoundEnvPath))]
       ELSE IF merged.error # NoError
            THEN [files |-> files2, result |-> Thrown(merged.error)]
       ELSE [files |-> files2, result |-> Returned(merged.env, CompoundSpecPath)]

\* concatTracerConfigs(configs) on the file system `files`, where the two writes end
\* as specWrite and envWrite say: the file system it leaves and what it returns or
\* throws.
concatTracerConfigs(configs, files, specWrite, envWrite) ==
    LET merged == MergeEnvs(configs)
        read == ReadSpecs(ConcatOrder(configs), configs, files,
                    [totalCount |-> Num(0), totalLines |-> <<>>, error |-> NoError])
        files1 == WriteFile(files, CompoundSpecPath,
                      CompoundSpecContent(read.totalCount, read.totalLines), specWrite)
        files2 == WriteFile(files1, CompoundEnvPath,
                      EnvironmentBlob(merged.env, merged.envSize), envWrite)
    IN IF merged.error # NoError THEN [files |-> files, result |-> Thrown(merged.error)]
       ELSE IF read.error # NoError THEN [files |-> files, result |-> Thrown(read.error)]
       ELSE IF specWrite # "ok"
            THEN [files |-> files1, result |-> Thrown(IOError(CompoundSpecPath))]
       ELSE IF envWrite # "ok"
            THEN [files |-> files2, result |-> Thrown(IOError(CompoundEnvPath))]
       ELSE [files |-> files2, result |-> Returned(merged.env, CompoundSpecPath)]

-----------------------------------------------------------------------------
(* The inputs of the runs.                                                 *)

\* The length of the list of languages util.getLanguages() returns.
MaxLangs == 3

\* The languages a run can find: the traced ones, and two that are only scanned.
Languages == TracedLanguages \cup {Go, Python}

\* ['cpp', 'java', 'csharp'].includes(language)
IsTraced(language) == language \in TracedLanguages

RECURSIVE ListsOver(_, _)
ListsOver(S, n) ==
    IF n = 0 THEN {<<>>}
    ELSE LET shorter == ListsOver(S, n - 1)
         IN shorter \cup {Append(l, x) : l \in {m \in shorter : Len(m) = n - 1},
                                         x \in S}

Distinct(l) == \A i, j \in 1..Len(l) : i # j => l[i] # l[j]

\* The lists of languages of a run: no language twice.
LanguageLists == {l \in ListsOver(Languages, MaxLangs) : Distinct(l)}

X == <<"X">>
Y == <<"Y">>
HOME == <<"H", "O", "M", "E">>
CODEQL_RAM == <<"C", "O", "D", "E", "Q", "L", "_", "R", "A", "M">>

\* The environment the runner starts every action with.
AmbientEnv ==
    [n \in {HOME, SEMMLE_RUNNER, CODEQL_RAM} |-> <<"1">>]

\* The tracer spec file the trace command writes for a language: the log path, the
\* declared count, the block lines, with or without a final line break.
LangTag(language) ==
    IF language = Cpp THEN "c" ELSE IF language = Java THEN "j" ELSE "s"
LangSpecPath(language) == <<"/", "d", "b", "/">> \o language \o <<"/", "s", "p", "e", "c">>
BlockLine(language, i) == <<LangTag(language), DigitChars[i + 1]>>
SpecFile(language, declared, nLines, eol, trailing) ==
    Join(<<<<"l", "o", "g">>, NatToString(declared)>>
             \o [i \in 1..nLines |-> BlockLine(language, i)], eol)
        \o (IF trailing THEN eol ELSE <<>>)
PlainSpecFile(language) == SpecFile(language, 1, 1, <<LF>>, FALSE)

\* The variables a probe's environment dump can hold besides the configuration.
DumpVars ==
    { <<>>,
      << <<X, <<"1">>>> >>,
      << <<X, <<Eacute>>>>, <<HOME, <<"2">>>> >>,
      << <<SEMMLE_RUNNER, <<"2">>>>, <<CODEQL_RAM, <<"1">>>> >> }

\* The environment dumps of the probe of a language: with the configuration
\* variable naming the language's spec file, or without it.
ProbeDumps(language) ==
    {<< <<ODASA_TRACER_CONFIGURATION, LangSpecPath(language)>> >> \o vars :
        vars \in DumpVars}
    \cup {<< <<HOME, <<"1">>>> >>}

-----------------------------------------------------------------------------
(* The names and values the runs publish.                                  *)

LGTM_INDEX_INCLUDE ==
    <<"L", "G", "T", "M", "_", "I", "N", "D", "E", "X", "_", "I", "N", "C", "L", "U",
      "D", "E">>
LGTM_INDEX_EXCLUDE ==
    <<"L", "G", "T", "M", "_", "I", "N", "D", "E", "X", "_", "E", "X", "C", "L", "U",
      "D", "E">>
GOFLAGS ==
    <<"G", "O", "F", "L", "A", "G", "S">>
CODEQL_ACTION_SCANNED_LANGUAGES ==
    <<"C", "O", "D", "E", "Q", "L", "_", "A", "C", "T", "I", "O", "N", "_", "S", "C",
      "A", "N", "N", "E", "D", "_", "L", "A", "N", "G", "U", "A", "G", "E", "S">>
CODEQL_ACTION_LANGUAGES ==
    <<"C", "O", "D", "E", "Q", "L", "_", "A", "C", "T", "I", "O", "N", "_", "L", "A",
      "N", "G", "U", "A", "G", "E", "S">>
CODEQL_ACTION_RESULTS ==
    <<"C", "O", "D", "E", "Q", "L", "_", "A", "C", "T", "I", "O", "N", "_", "R", "E",
      "S", "U", "L", "T", "S">>
CODEQL_ACTION_CMD ==
    <<"C", "O", "D", "E", "Q", "L", "_", "A", "C", "T", "I", "O", "N", "_", "C", "M",
      "D">>
\* path.resolve(util.workspaceFolder(), 'codeql_results')
codeqlResultFolder ==
    <<"/", "w", "/", "c", "o", "d", "e", "q", "l", "_", "r", "e", "s", "u", "l", "t",
      "s">>
\* codeqlSetup.cmd
codeqlCmd ==
    <<"/", "t", "/", "c", "o", "d", "e", "q", "l">>
\* path.join(codeqlSetup.tools, 'osx64', 'libtrace.dylib')
OsxTracerLib ==
    <<"/", "t", "/", "o", "s", "x", "6", "4", "/", "l", "i", "b", "t", "r", "a", "c",
      "e", ".", "d", "y", "l", "i", "b">>
\* path.join(codeqlSetup.tools, 'linux64', '${LIB}trace.so')
LinuxTracerLib ==
    <<"/", "t", "/", "l", "i", "n", "u", "x", "6", "4", "/", "$", "{", "L", "I", "B",
      "}", "t", "r", "a", "c", "e", ".", "s", "o">>

\* s.split(',')
RECURSIVE SplitCommaFrom(_, _, _)
SplitCommaFrom(s, i, cur) ==
    IF i > Len(s) THEN <<cur>>
    ELSE IF s[i] = "," THEN <<cur>> \o SplitCommaFrom(s, i + 1, <<>>)
    ELSE SplitCommaFrom(s, i + 1, Append(cur, s[i]))
SplitComma(s) == SplitCommaFrom(s, 1, <<>>)

\* core.exportVariable(name, value) for every pair, in order, on one environment
RECURSIVE ExportAll(_, _)
ExportAll(env, pairs) ==
    IF pairs = <<>> THEN env
    ELSE ExportAll(EnvSet(env, Head(pairs)[1], Head(pairs)[2]), Tail(pairs))

\* The environment of a new action process: the runner's, and what was exported.
StartEnv(exported) ==
    [n \in DOMAIN AmbientEnv \cup DOMAIN exported |->
        IF n \in DOMAIN exported THEN exported[n] ELSE AmbientEnv[n]]

\* process.env[name], Undefined when unset
EnvGet(env, name) == IF name \in DOMAIN env THEN env[name] ELSE Undefined

-----------------------------------------------------------------------------
(* State.                                                                  *)

VARIABLES
    pc,                \* where the workflow is: a position in the init, autobuild or finish run
    languages,         \* init: the languages util.getLanguages() returned
    todo,              \* init: the languages the loop has still to visit
    tracedLanguages,   \* init: language -> TracerConfig, in insertion order
    scannedLanguages,  \* init: the languages that are not traced
    files,             \* the file system: path -> content
    procEnv,           \* process.env of the running action
    jobEnv,            \* the variables exported to the later steps of the job
    platform,          \* process.platform, once the run has read it
    mainTracerConfig,  \* init: what concatTracerConfigs returned or threw
    log                \* what the runs did, in order

vars == <<pc, languages, todo, tracedLanguages, scannedLanguages, files, procEnv,
          jobEnv, platform, mainTracerConfig, log>>

\* One thing a run did, with the tracer configuration its process had at the time.
Event(run, ev, arg, penv) ==
    [run |-> run, ev |-> ev, arg |-> arg,
     odasa |-> EnvGet(penv, ODASA_TRACER_CONFIGURATION)]

\* The catch block of a run: core.setFailed, then util.reportActionFailed.
Failed(run, penv) ==
    <<Event(run, "setFailed", <<>>, penv), Event(run, "reportActionFailed", <<>>, penv)>>

NotCalled == [kind |-> "none", env |-> <<>>, spec |-> Undefined, error |-> NoError]

Init ==
    /\ pc = "init_start"
    /\ languages = <<>>
    /\ todo = <<>>
    /\ tracedLanguages = <<>>
    /\ scannedLanguages = <<>>
    /\ files = <<>>
    /\ procEnv = AmbientEnv
    /\ jobEnv = <<>>
    /\ platform = "unread"
    /\ mainTracerConfig = NotCalled
    /\ log = <<>>

-----------------------------------------------------------------------------
(* The init run, up to the language loop.                                  *)

\* util.should_abort('init') holds or util.reportActionStarting('init') fails.
InitAbort ==
    /\ pc = "init_start"
    /\ pc' = "init_done"
    /\ UNCHANGED <<languages, todo, tracedLanguages, scannedLanguages, files, procEnv,
                   jobEnv, platform, mainTracerConfig, log>>

\* What util.getLanguages() publishes: the languages of the run, for the later steps.
getLanguages(env, l) == EnvSet(env, CODEQL_ACTION_LANGUAGES, Join(l, <<",">>))

\* includeAndExcludeAnalysisPaths with a config that names no paths.
includeAndExcludeAnalysisPaths(env) ==
    ExportAll(env, << <<LGTM_INDEX_INCLUDE, <<>>>>, <<LGTM_INDEX_EXCLUDE, <<>>>> >>)

\* The Go flags are forwarded when the process has some.
ForwardGoFlags(env, penv) ==
    IF GOFLAGS \in DOMAIN penv /\ penv[GOFLAGS] # <<>>
    THEN EnvSet(env, GOFLAGS, penv[GOFLAGS]) ELSE env

\* configUtils.loadConfig() throws: nothing was published.
InitLoadConfigFails ==
    /\ pc = "init_start"
    /\ pc' = "init_done"
    /\ log' = <<Event("init", "reportActionStarting", <<>>, procEnv)>>
                 \o Failed("init", procEnv)
    /\ UNCHANGED <<languages, todo, tracedLanguages, scannedLanguages, files, procEnv,
                   jobEnv, platform, mainTracerConfig>>

\* No language was given or detected: core.setFailed, and the run returns.
InitNoLanguages ==
    /\ pc = "init_start"
    /\ pc' = "init_done"
    /\ procEnv' = getLanguages(procEnv, <<>>)
    /\ jobEnv' = getLanguages(jobEnv, <<>>)
    /\ log' = <<Event("init", "reportActionStarting", <<>>, procEnv),
                Event("init", "setFailed", <<>>, procEnv)>>
    /\ UNCHANGED <<languages, todo, tracedLanguages, scannedLanguages, files,
                   platform, mainTracerConfig>>

\* The languages are known and the paths published, and setting up the CodeQL tools
\* (or running them for their version, or creating the database folder) throws.
InitSetupFails ==
    /\ pc = "init_start"
    /\ \E l \in LanguageLists \ {<<>>} :
        /\ languages' = l
        /\ procEnv' = includeAndExcludeAnalysisPaths(getLanguages(procEnv, l))
        /\ jobEnv' = includeAndExcludeAnalysisPaths(getLanguages(jobEnv, l))
    /\ pc' = "init_done"
    /\ log' = <<Event("init", "reportActionStarting", <<>>, procEnv)>>
                 \o Failed("init", procEnv)
    /\ UNCHANGED <<todo, tracedLanguages, scannedLanguages, files, platform,
                   mainTracerConfig>>

\* The run reaches the language loop.
InitSetup ==
    /\ pc = "init_start"
    /\ \E l \in LanguageLists \ {<<>>} :
        /\ languages' = l
        /\ todo' = l
        /\ procEnv' = ForwardGoFlags(
               includeAndExcludeAnalysisPaths(getLanguages(procEnv, l)), procEnv)
        /\ jobEnv' = ForwardGoFlags(
               includeAndExcludeAnalysisPaths(getLanguages(jobEnv, l)), procEnv)
    /\ pc' = "init_loop"
    /\ log' = <<Event("init", "reportActionStarting", <<>>, procEnv)>>
    /\ UNCHANGED <<tracedLanguages, scannedLanguages, files, platform, mainTracerConfig>>

-----------------------------------------------------------------------------
(* The language loop of the init run.                                      *)

\* `codeql database init` of the next language throws.
InitDatabaseFails ==
    /\ pc = "init_loop" /\ todo # <<>>
    /\ pc' = "init_done"
    /\ log' = Append(log, Event("init", "database init", Head(todo), procEnv))
                 \o Failed("init", procEnv)
    /\ UNCHANGED <<languages, todo, tracedLanguages, scannedLanguages, files, procEnv,
                   jobEnv, platform, mainTracerConfig>>

\* The probe of the next, traced, language throws: the trace command fails, or the
\* dump cannot be read or parsed.
ProbeFails ==
    /\ pc = "init_loop" /\ todo # <<>> /\ IsTraced(Head(todo))
    /\ pc' = "init_done"
    /\ log' = log \o <<Event("init", "database init", Head(todo), procEnv),
                       Event("init", "tracerConfig", Head(todo), procEnv)>>
                  \o Failed("init", procEnv)
    /\ UNCHANGED <<languages, todo, tracedLanguages, scannedLanguages, files, procEnv,
                   jobEnv, platform, mainTracerConfig>>

\* The probe of the next, traced, language returns its TracerConfig.
ProbeTraced ==
    /\ pc = "init_loop" /\ todo # <<>> /\ IsTraced(Head(todo))
    /\ \E dump \in ProbeDumps(Head(todo)) :
        /\ files' = IF Has(dump, ODASA_TRACER_CONFIGURATION)
                    THEN WriteFile(files, LangSpecPath(Head(todo)),
                                   PlainSpecFile(Head(todo)), "ok")
                    ELSE files
        /\ tracedLanguages' = Put(tracedLanguages, Head(todo), tracerConfig(dump, procEnv))
    /\ todo' = Tail(todo)
    /\ log' = log \o <<Event("init", "database init", Head(todo), procEnv),
                       Event("init", "tracerConfig", Head(todo), procEnv)>>
    /\ UNCHANGED <<pc, languages, scannedLanguages, procEnv, jobEnv, platform,
                   mainTracerConfig>>

\* The next language is not traced.
ScanLanguage ==
    /\ pc = "init_loop" /\ todo # <<>> /\ ~IsTraced(Head(todo))
    /\ scannedLanguages' = Append(scannedLanguages, Head(todo))
    /\ todo' = Tail(todo)
    /\ log' = Append(log, Event("init", "database init", Head(todo), procEnv))
    /\ UNCHANGED <<pc, languages, tracedLanguages, files, procEnv, jobEnv, platform,
                   mainTracerConfig>>

-----------------------------------------------------------------------------
(* The init run after the loop: aggregate and publish.                     *)

Platforms == {"darwin", "win32", "linux"}

\* core.exportVariable(CODEQL_ACTION_SCANNED_LANGUAGES, scannedLanguages.join(','))
ExportScanned(env) ==
    EnvSet(env, CODEQL_ACTION_SCANNED_LANGUAGES, Join(scannedLanguages, <<",">>))

\* The last two exports of the run.
ExportResults(env) ==
    ExportAll(env, << <<CODEQL_ACTION_RESULTS, codeqlResultFolder>>,
                      <<CODEQL_ACTION_CMD, codeqlCmd>> >>)

\* The exports of a compound configuration whose spec is set: every merged entry,
\* the spec path and, off Windows, the preload variable of the platform.
PublishTracer(env, config, plat) ==
    IF config.spec = Undefined \/ config.spec = <<>> THEN env
    ELSE LET published == EnvSet(ExportAll(env, config.env),
                                 ODASA_TRACER_CONFIGURATION, config.spec)
         IN IF plat = "darwin" THEN EnvSet(published, DYLD_INSERT_LIBRARIES, OsxTracerLib)
            ELSE IF plat = "win32" THEN published
            ELSE EnvSet(published, LD_PRELOAD, LinuxTracerLib)

\* (A test that takes every run to have traced languages.)
HasTracedLanguagesAlways(configs) == TRUE

\* tracedLanguageKeys.length > 0
HasTracedLanguages(configs) == Len(Keys(configs)) > 0

\* No language is traced: concatTracerConfigs is not called.
InitWithoutTracing ==
    /\ pc = "init_loop" /\ todo = <<>> /\ ~HasTracedLanguages(tracedLanguages)
    /\ pc' = "init_done"
    /\ procEnv' = ExportResults(ExportScanned(procEnv))
    /\ jobEnv' = ExportResults(ExportScanned(jobEnv))
    /\ log' = Append(log, Event("init", "reportActionSucceeded", <<>>, procEnv'))
    /\ UNCHANGED <<languages, todo, tracedLanguages, scannedLanguages, files, platform,
                   mainTracerConfig>>

\* concatTracerConfigs throws: the run fails with what it had written.
InitAggregateThrows ==
    /\ pc = "init_loop" /\ todo = <<>> /\ HasTracedLanguages(tracedLanguages)
    /\ \E writes \in WriteCases :
        LET r == concatTracerConfigs(tracedLanguages, files, writes[1], writes[2])
        IN /\ r.result.kind = "thrown"
           /\ files' = r.files
           /\ mainTracerConfig' = r.result
    /\ pc' = "init_done"
    /\ procEnv' = ExportScanned(procEnv)
    /\ jobEnv' = ExportScanned(jobEnv)
    /\ log' = Append(log, Event("init", "concatTracerConfigs", <<>>, procEnv))
                 \o Failed("init", procEnv')
    /\ UNCHANGED <<languages, todo, tracedLanguages, scannedLanguages, platform>>

\* concatTracerConfigs returns and the compound configuration is published; on
\* Windows the tracer is then injected, and that works.
InitAggregate ==
    /\ pc = "init_loop" /\ todo = <<>> /\ HasTracedLanguages(tracedLanguages)
    /\ LET r == concatTracerConfigs(tracedLanguages, files, "ok", "ok")
       IN /\ r.result.kind = "returned"
          /\ files' = r.files
          /\ mainTracerConfig' = r.result
          /\ \E plat \in Platforms :
              /\ platform' = plat
              /\ procEnv' = ExportResults(
                     PublishTracer(ExportScanned(procEnv), r.result, plat))
              /\ jobEnv' = ExportResults(
                     PublishTracer(ExportScanned(jobEnv), r.result, plat))
              /\ log' = log
                     \o <<Event("init", "concatTracerConfigs", <<>>, procEnv)>>
                     \o (IF plat = "win32"
                         THEN <<Event("init", "inject-tracer", <<>>, procEnv')>>
                         ELSE <<>>)
                     \o <<Event("init", "reportActionSucceeded", <<>>, procEnv')>>
    /\ pc' = "init_done"
    /\ UNCHANGED <<languages, todo, tracedLanguages, scannedLanguages>>

\* On Windows the injection of the tracer throws, after the exports.
InitInjectFails ==
    /\ pc = "init_loop" /\ todo = <<>> /\ HasTracedLanguages(tracedLanguages)
    /\ LET r == concatTracerConfigs(tracedLanguages, files, "ok", "ok")
       IN /\ r.result.kind = "returned"
          /\ files' = r.files
          /\ mainTracerConfig' = r.result
          /\ procEnv' = PublishTracer(ExportScanned(procEnv), r.result, "win32")
          /\ jobEnv' = PublishTracer(ExportScanned(jobEnv), r.result, "win32")
    /\ platform' = "win32"
    /\ pc' = "init_done"
    /\ log' = log
           \o <<Event("init", "concatTracerConfigs", <<>>, procEnv),
                Event("init", "inject-tracer", <<>>, procEnv')>>
           \o Failed("init", procEnv')
    /\ UNCHANGED <<languages, todo, tracedLanguages, scannedLanguages>>

-----------------------------------------------------------------------------
(* The autobuild run. It is a step of its own between the init step and    *)
(* the finish step, in a new process, when no step before failed the job.  *)

HasEvent(run, ev) == \E i \in 1..Len(log) : log[i].run = run /\ log[i].ev = ev

\* No step so far has failed the job: the runner starts the next step.
JobGoesOn == \A i \in 1..Len(log) : log[i].ev # "setFailed"

CODEQL_ACTION_AUTOBUILD_LANGUAGES ==
    <<"C", "O", "D", "E", "Q", "L", "_", "A", "C", "T", "I", "O", "N", "_", "A",
      "U", "T", "O", "B", "U", "I", "L", "D", "_", "L", "A", "N", "G", "U", "A",
      "G", "E", "S">>
JAVA_TOOL_OPTIONS ==
    <<"J", "A", "V", "A", "_", "T", "O", "O", "L", "_", "O", "P", "T", "I", "O",
      "N", "S">>
LGTM_WORKSPACE ==
    <<"L", "G", "T", "M", "_", "W", "O", "R", "K", "S", "P", "A", "C", "E">>
SEMMLE_DIST ==
    <<"S", "E", "M", "M", "L", "E", "_", "D", "I", "S", "T">>
RUNNER_WORKSPACE ==
    <<"R", "U", "N", "N", "E", "R", "_", "W", "O", "R", "K", "S", "P", "A", "C",
      "E">>
DefaultWorkspace ==
    <<"/", "t", "m", "p", "/", "c", "o", "d", "e", "q", "l", "-", "a", "c", "t",
      "i", "o", "n">>
KeepAliveOff ==
    <<"-", "D", "h", "t", "t", "p", ".", "k", "e", "e", "p", "A", "l", "i", "v",
      "e", "=", "f", "a", "l", "s", "e">>
WagonPoolOff ==
    <<"-", "D", "m", "a", "v", "e", "n", ".", "w", "a", "g", "o", "n", ".", "h",
      "t", "t", "p", ".", "p", "o", "o", "l", "=", "f", "a", "l", "s", "e">>

\* The values the autobuild run may find in CODEQL_ACTION_AUTOBUILD_LANGUAGES:
\* unset, empty, one language, several.
AutobuildLanguageValues ==
    {Undefined, <<>>, Java, Cpp, Join(<<Python, Java>>, <<",">>)}

\* process.env[...]?.split(',')[0]
AutobuildLanguage(value) ==
    IF value = Undefined THEN Undefined ELSE SplitComma(value)[1]

\* s.split(/\s+/)
RECURSIVE SplitSpacesFrom(_, _, _)
SplitSpacesFrom(s, i, cur) ==
    IF i > Len(s) THEN <<cur>>
    ELSE IF IsSpace(s[i])
         THEN IF i > 1 /\ IsSpace(s[i - 1]) THEN SplitSpacesFrom(s, i + 1, cur)
              ELSE <<cur>> \o SplitSpacesFrom(s, i + 1, <<>>)
    ELSE SplitSpacesFrom(s, i + 1, Append(cur, s[i]))
SplitSpaces(s) == SplitSpacesFrom(s, 1, <<>>)

\* JAVA_TOOL_OPTIONS with the two options that keep Maven from reusing connections.
JavaToolOptions(penv) ==
    LET old == IF JAVA_TOOL_OPTIONS \in DOMAIN penv /\ penv[JAVA_TOOL_OPTIONS] # <<>>
               THEN penv[JAVA_TOOL_OPTIONS] ELSE <<>>
    IN Join(SplitSpaces(old) \o <<KeepAliveOff, WagonPoolOff>>, <<" ">>)

\* What the codeql command prints for the extractor of a language: a JSON string.
ExtractorPath(language) == <<"\"", "/", "t", "/">> \o language \o <<"\"">>

\* JSON.parse of a JSON string without escapes
JsonParse(text) == SubSeq(text, 2, Len(text) - 1)

\* path.join(extractorPath, 'tools', cmdName)
AutobuildCmd(language, plat) ==
    Join(<<ExtractorPath(language), <<"t", "o", "o", "l", "s">>,
           IF plat = "win32"
           THEN <<"a", "u", "t", "o", "b", "u", "i", "l", "d", ".", "c", "m", "d">>
           ELSE <<"a", "u", "t", "o", "b", "u", "i", "l", "d", ".", "s", "h">> >>,
         <<"/">>)

\* The environment of the process when the build command of the language starts.
AutobuildEnv(penv, language) ==
    IF language = Python
    THEN EnvSet(EnvSet(penv, LGTM_WORKSPACE,
                       IF RUNNER_WORKSPACE \in DOMAIN penv /\ penv[RUNNER_WORKSPACE] # <<>>
                       THEN penv[RUNNER_WORKSPACE] ELSE DefaultWorkspace),
                SEMMLE_DIST, JsonParse(ExtractorPath(language)))
    ELSE IF language = Java
    THEN EnvSet(penv, JAVA_TOOL_OPTIONS, JavaToolOptions(penv))
    ELSE penv

\* The commands of the autobuild run, in order: the extractor is resolved, then
\* python is set up, or the autobuilder of the language is run.
AutobuildCommands(language, plat, penv) ==
    <<Event("autobuild", "resolve extractor", language, penv)>>
    \o IF language = Python
       THEN <<Event("autobuild", "apt-get update", language, penv),
              Event("autobuild", "apt-get install", language, penv),
              Event("autobuild", "pip install", language, penv),
              Event("autobuild", "setup.py", language, AutobuildEnv(penv, language))>>
       ELSE <<Event("autobuild", "autobuild", AutobuildCmd(language, plat),
                    AutobuildEnv(penv, language))>>

\* util.should_abort('autobuild', true) holds or util.reportActionStarting fails.
AutobuildAbort ==
    /\ pc = "init_done" /\ JobGoesOn
    /\ pc' = "autobuild_done"
    /\ procEnv' = StartEnv(jobEnv)
    /\ UNCHANGED <<languages, todo, tracedLanguages, scannedLanguages, files, jobEnv,
                   platform, mainTracerConfig, log>>

\* No language to build: the run says so and returns.
AutobuildNoLanguage ==
    /\ pc = "init_done" /\ JobGoesOn
    /\ \E value \in AutobuildLanguageValues :
          /\ AutobuildLanguage(value) \in {Undefined, <<>>}
          /\ procEnv' = IF value = Undefined THEN StartEnv(jobEnv)
                        ELSE EnvSet(StartEnv(jobEnv), CODEQL_ACTION_AUTOBUILD_LANGUAGES,
                                    value)
    /\ pc' = "autobuild_done"
    /\ log' = Append(log, Event("autobuild", "reportActionStarting", <<>>, procEnv'))
    /\ UNCHANGED <<languages, todo, tracedLanguages, scannedLanguages, files, jobEnv,
                   platform, mainTracerConfig>>

\* util.getRequiredEnvParam throws: the init run exported no CODEQL_ACTION_CMD.
AutobuildParamFails ==
    /\ pc = "init_done" /\ JobGoesOn
    /\ CODEQL_ACTION_CMD \notin DOMAIN StartEnv(jobEnv)
    /\ \E value \in AutobuildLanguageValues :
          /\ AutobuildLanguage(value) \notin {Undefined, <<>>}
          /\ procEnv' = EnvSet(StartEnv(jobEnv), CODEQL_ACTION_AUTOBUILD_LANGUAGES, value)
    /\ pc' = "autobuild_done"
    /\ log' = Append(log, Event("autobuild", "reportActionStarting", <<>>, procEnv'))
                 \o Failed("autobuild", procEnv')
    /\ UNCHANGED <<languages, todo, tracedLanguages, scannedLanguages, files, jobEnv,
                   platform, mainTracerConfig>>

\* One of the commands fails, the n-th: the commands before it have run, the run
\* reports the failure.
AutobuildFails ==
    /\ pc = "init_done" /\ JobGoesOn
    /\ CODEQL_ACTION_CMD \in DOMAIN StartEnv(jobEnv)
    /\ \E value \in AutobuildLanguageValues, plat \in Platforms :
          LET language == AutobuildLanguage(value)
              penv == EnvSet(StartEnv(jobEnv), CODEQL_ACTION_AUTOBUILD_LANGUAGES, value)
              cmds == AutobuildCommands(language, plat, penv)
          IN /\ language \notin {Undefined, <<>>}
             /\ platform \in {"unread", plat}
             /\ \E n \in 1..Len(cmds) :
                   /\ platform' = IF n = 1 THEN platform ELSE plat
                   /\ procEnv' = IF n = Len(cmds) THEN AutobuildEnv(penv, language)
                                 ELSE penv
                   /\ log' = Append(log, Event("autobuild", "reportActionStarting",
                                               <<>>, penv))
                                \o SubSeq(cmds, 1, n) \o Failed("autobuild", procEnv')
    /\ pc' = "autobuild_done"
    /\ UNCHANGED <<languages, todo, tracedLanguages, scannedLanguages, files, jobEnv,
                   mainTracerConfig>>

\* Every command succeeds: the run reports its success.
Autobuild ==
    /\ pc = "init_done" /\ JobGoesOn
    /\ CODEQL_ACTION_CMD \in DOMAIN StartEnv(jobEnv)
    /\ \E value \in AutobuildLanguageValues, plat \in Platforms :
          LET language == AutobuildLanguage(value)
              penv == EnvSet(StartEnv(jobEnv), CODEQL_ACTION_AUTOBUILD_LANGUAGES, value)
          IN /\ language \notin {Undefined, <<>>}
             /\ platform \in {"unread", plat}
             /\ platform' = plat
             /\ procEnv' = AutobuildEnv(penv, language)
             /\ log' = Append(log, Event("autobuild", "reportActionStarting", <<>>, penv))
                          \o AutobuildCommands(language, plat, penv)
                          \o <<Event("autobuild", "reportActionSucceeded", <<>>,
                                     procEnv')>>
    /\ pc' = "autobuild_done"
    /\ UNCHANGED <<languages, todo, tracedLanguages, scannedLanguages, files, jobEnv,
                   mainTracerConfig>>

-----------------------------------------------------------------------------
(* The finish run. It starts in a new process, after the init step or the  *)
(* autobuild step, when no step before failed the job.                     *)

\* The runner has come to the finish step.
FinishCanStart == pc \in {"init_done", "autobuild_done"} /\ JobGoesOn

\* The commands of finalizeDatabaseCreation: for every scanned language the
\* extractor is resolved and its trace command run, then every database is
\* finalized.
FinalizeCommands(penv) ==
    LET scanned == EnvGet(penv, CODEQL_ACTION_SCANNED_LANGUAGES)
        all == EnvGet(penv, CODEQL_ACTION_LANGUAGES)
        scannedList == IF scanned = Undefined \/ scanned = <<>> THEN <<>>
                       ELSE SplitComma(scanned)
        allList == SplitComma(IF all = Undefined THEN <<>> ELSE all)
    IN Concat([i \in 1..Len(scannedList) |->
                  <<Event("finish", "resolve extractor", scannedList[i], penv),
                    Event("finish", "database trace-command", scannedList[i], penv)>>])
       \o [i \in 1..Len(allList) |->
              Event("finish", "database finalize", allList[i], penv)]

\* The commands of runQueries: one analysis per database of the database folder.
AnalyzeCommands(penv) ==
    [i \in 1..Len(languages) |-> Event("finish", "database analyze", languages[i], penv)]

\* util.should_abort('finish') holds or util.reportActionStarting('finish') fails.
FinishAbort ==
    /\ FinishCanStart
    /\ pc' = "finish_done"
    /\ procEnv' = StartEnv(jobEnv)
    /\ UNCHANGED <<languages, todo, tracedLanguages, scannedLanguages, files, jobEnv,
                   platform, mainTracerConfig, log>>

\* configUtils.loadConfig() throws.
FinishLoadConfigFails ==
    /\ FinishCanStart
    /\ pc' = "finish_done"
    /\ procEnv' = StartEnv(jobEnv)
    /\ log' = Append(log, Event("finish", "reportActionStarting", <<>>, procEnv'))
                 \o Failed("finish", procEnv')
    /\ UNCHANGED <<languages, todo, tracedLanguages, scannedLanguages, files, jobEnv,
                   platform, mainTracerConfig>>

\* (A clearing that leaves the environment of the process as it is.)
ClearTracerKeepsProcessEnv(penv) == penv

\* The tracer configuration is cleared: exported as empty, and deleted from the
\* environment of the process.
ClearTracer(penv) ==
    EnvDelete(EnvSet(penv, ODASA_TRACER_CONFIGURATION, <<>>), ODASA_TRACER_CONFIGURATION)

\* The run clears the tracer configuration and finds its parameters.
FinishClear ==
    /\ FinishCanStart
    /\ pc' = "finish_finalize"
    /\ procEnv' = ClearTracer(StartEnv(jobEnv))
    /\ jobEnv' = EnvSet(jobEnv, ODASA_TRACER_CONFIGURATION, <<>>)
    /\ log' = log \o <<Event("finish", "reportActionStarting", <<>>, StartEnv(jobEnv)),
                       Event("finish", "clear", <<>>, procEnv')>>
    /\ UNCHANGED <<languages, todo, tracedLanguages, scannedLanguages, files, platform,
                   mainTracerConfig>>

\* The run clears the tracer configuration, and a required parameter is missing (or
\* the output folder cannot be created).
FinishParamFails ==
    /\ FinishCanStart
    /\ pc' = "finish_done"
    /\ procEnv' = ClearTracer(StartEnv(jobEnv))
    /\ jobEnv' = EnvSet(jobEnv, ODASA_TRACER_CONFIGURATION, <<>>)
    /\ log' = log \o <<Event("finish", "reportActionStarting", <<>>, StartEnv(jobEnv)),
                       Event("finish", "clear", <<>>, procEnv')>>
                  \o Failed("finish", procEnv')
    /\ UNCHANGED <<languages, todo, tracedLanguages, scannedLanguages, files, platform,
                   mainTracerConfig>>

\* finalizeDatabaseCreation runs all its commands.
FinishFinalize ==
    /\ pc = "finish_finalize"
    /\ pc' = "finish_analyze"
    /\ log' = log \o FinalizeCommands(procEnv)
    /\ UNCHANGED <<languages, todo, tracedLanguages, scannedLanguages, files, procEnv,
                   jobEnv, platform, mainTracerConfig>>

\* One of the commands of finalizeDatabaseCreation throws.
FinishFinalizeFails ==
    /\ pc = "finish_finalize"
    /\ pc' = "finish_done"
    /\ \E n \in 1..Len(FinalizeCommands(procEnv)) :
        log' = log \o SubSeq(FinalizeCommands(procEnv), 1, n) \o Failed("finish", procEnv)
    /\ UNCHANGED <<languages, todo, tracedLanguages, scannedLanguages, files, procEnv,
                   jobEnv, platform, mainTracerConfig>>

\* runQueries runs every analysis, the results are uploaded when asked for, and
\* the run reports success.
FinishAnalyze ==
    /\ pc = "finish_analyze"
    /\ pc' = "finish_done"
    /\ log' = log \o AnalyzeCommands(procEnv)
                  \o <<Event("finish", "reportActionSucceeded", <<>>, procEnv)>>
    /\ UNCHANGED <<languages, todo, tracedLanguages, scannedLanguages, files, procEnv,
                   jobEnv, platform, mainTracerConfig>>

\* One of the analyses throws, or the upload after them does.
FinishAnalyzeFails ==
    /\ pc = "finish_analyze"
    /\ pc' = "finish_done"
    /\ \E n \in 1..Len(AnalyzeCommands(procEnv)) :
        log' = log \o SubSeq(AnalyzeCommands(procEnv), 1, n) \o Failed("finish", procEnv)
    /\ UNCHANGED <<languages, todo, tracedLanguages, scannedLanguages, files, procEnv,
                   jobEnv, platform, mainTracerConfig>>

Next ==
    \/ InitAbort
    \/ InitLoadConfigFails
    \/ InitNoLanguages
    \/ InitSetupFails
    \/ InitSetup
    \/ InitDatabaseFails
    \/ ProbeFails
    \/ ProbeTraced
    \/ ScanLanguage
    \/ InitWithoutTracing
    \/ InitAggregateThrows
    \/ InitAggregate
    \/ InitInjectFails
    \/ AutobuildAbort
    \/ AutobuildNoLanguage
    \/ AutobuildParamFails
    \/ AutobuildFails
    \/ Autobuild
    \/ FinishAbort
    \/ FinishLoadConfigFails
    \/ FinishClear
    \/ FinishParamFails
    \/ FinishFinalize
    \/ FinishFinalizeFails
    \/ FinishAnalyze
    \/ FinishAnalyzeFails

Spec == Init /\ [][Next]_vars

-----------------------------------------------------------------------------
(* concatTracerConfigs on its own: every mapping of traced languages to    *)
(* TracerConfigs, in every key order, over the spec files they name.       *)

\* The most blocks a spec file of the inputs declares.
MaxBlocks == 1

\* What the env of a TracerConfig can be.
ConcatEnvs ==
    { <<>>,
      << <<X, <<"1">>>> >>,
      << <<X, <<Eacute>>>> >>,
      << <<X, <<"1">>>>, <<Y, <<Eacute, "2">>>> >> }

Shape(kind, env, declared, nLines, eol, trailing) ==
    [kind |-> kind, env |-> env, declared |-> declared, nLines |-> nLines,
     eol |-> eol, trailing |-> trailing]

\* A TracerConfig and its spec file: any env with the plain spec file; or no env,
\* with a spec file that declares up to MaxBlocks blocks and carries as many lines,
\* one more or one fewer, ending with a line break or not; or a spec file with
\* CR LF line ends; or a spec path that names no file; or no spec path.
ConfigShapes ==
    {Shape("file", env, 1, 1, <<LF>>, FALSE) : env \in ConcatEnvs}
    \cup {Shape("file", <<>>, d, n, <<LF>>, t) :
            d \in 1..MaxBlocks, n \in 0..(MaxBlocks + 1), t \in BOOLEAN}
    \cup {Shape("file", <<>>, 1, 1, <<CR, LF>>, TRUE),
          Shape("missing", <<>>, 0, 0, <<LF>>, FALSE),
          Shape("undefined", <<>>, 0, 0, <<LF>>, FALSE)}

\* Only the shapes whose line count is the declared count, one more or one fewer.
UsedShapes ==
    {sh \in ConfigShapes : sh.nLines + 1 >= sh.declared /\ sh.nLines <= sh.declared + 1}

ShapeConfig(language, sh) ==
    TracerConfig(IF sh.kind = "undefined" THEN Undefined ELSE LangSpecPath(language),
                 sh.env)

ShapeFile(language, sh) ==
    SpecFile(language, sh.declared, sh.nLines, sh.eol, sh.trailing)

\* The key orders of the mapping: the traced languages, each at most once.
TracedOrders ==
    {l \in ListsOver(TracedLanguages, Cardinality(TracedLanguages)) :
        l # <<>> /\ Distinct(l)}

ConcatInit ==
    /\ pc = "concat"
    /\ \E order \in TracedOrders :
        \E shape \in [{order[i] : i \in 1..Len(order)} -> UsedShapes] :
            /\ languages = order
            /\ tracedLanguages =
                   [i \in 1..Len(order) |->
                       <<order[i], ShapeConfig(order[i], shape[order[i]])>>]
            /\ files =
                   [path \in {LangSpecPath(order[i]) :
                                 i \in {j \in 1..Len(order) :
                                           shape[order[j]].kind = "file"}} |->
                       LET language == CHOOSE l \in DOMAIN shape : LangSpecPath(l) = path
                       IN ShapeFile(language, shape[language])]
    /\ todo = <<>>
    /\ scannedLanguages = <<>>
    /\ procEnv = AmbientEnv
    /\ jobEnv = <<>>
    /\ platform = "unread"
    /\ mainTracerConfig = NotCalled
    /\ log = <<>>

\* The call: concatTracerConfigs(tracedLanguages), its two writes ending any way.
ConcatCall ==
    /\ pc = "concat"
    /\ pc' = "concat_done"
    /\ \E writes \in WriteCases :
        LET r == concatTracerConfigs(tracedLanguages, files, writes[1], writes[2])
        IN /\ files' = r.files
           /\ mainTracerConfig' = r.result
    /\ UNCHANGED <<languages, todo, tracedLanguages, scannedLanguages, procEnv, jobEnv,
                   platform, log>>

ConcatNext == ConcatCall

SpecConcat == ConcatInit /\ [][ConcatNext]_vars

-----------------------------------------------------------------------------
(* What the claims read: the inputs of the aggregation, the compound spec  *)
(* and the environment blob as the tracer reads it.                        *)

Called == mainTracerConfig.kind # "none"
ConcatReturned == mainTracerConfig.kind = "returned"
ConcatThrown == mainTracerConfig.kind = "thrown"

InputKeys == Keys(tracedLanguages)
InputConfig(language) == Get(tracedLanguages, language)
InputPairs(language) ==
    {InputConfig(language).env[i] : i \in 1..Len(InputConfig(language).env)}

\* Two configs give one variable two values.
HasConflict ==
    \E i, j \in 1..Len(tracedLanguages) :
        /\ i # j
        /\ \E p \in InputPairs(InputKeys[i]), q \in InputPairs(InputKeys[j]) :
              p[1] = q[1] /\ p[2] # q[2]

\* A config names no spec file that can be read.
HasUnreadableSpec ==
    \E i \in 1..Len(tracedLanguages) :
        InputConfig(InputKeys[i]).spec \notin DOMAIN files

\* How the spec file of a language was written: the count it declares, the lines it
\* carries, its line ends and whether it ends with one.
FileParams(language) ==
    CHOOSE q \in [declared : 0..MaxBlocks, nLines : 0..(MaxBlocks + 1),
                  eol : {<<LF>>, <<CR, LF>>}, trailing : BOOLEAN] :
        files[LangSpecPath(language)] =
            SpecFile(language, q.declared, q.nLines, q.eol, q.trailing)

\* The lines of a language's spec file after its second: its block lines, and an
\* empty line when the file ends with a line break.
InputBlockLines(language) ==
    LET q == FileParams(language)
    IN [i \in 1..q.nLines |-> BlockLine(language, i)]
           \o (IF q.trailing THEN <<<<>>>> ELSE <<>>)

LinesInOrder(order) == Concat([i \in 1..Len(order) |-> InputBlockLines(order[i])])

RECURSIVE SumDeclared(_)
SumDeclared(order) ==
    IF order = <<>> THEN 0
    ELSE FileParams(Head(order)).declared + SumDeclared(Tail(order))

\* The compound spec as written: its lines, and those after the second.
OutLines == SplitLines(files[CompoundSpecPath])
OutBlockLines == Slice2(OutLines)

\* The orders of the input languages.
Orderings ==
    {o \in TracedOrders : Len(o) = Len(InputKeys)
                          /\ \A i \in 1..Len(o) : \E j \in 1..Len(o) : o[i] = InputKeys[j]}

\* The reader of the environment blob: a 4-byte little-endian count, then for every
\* entry a 4-byte little-endian length and that many bytes, "key=value\0" in UTF-8.
ReadInt32LE(b, off) ==
    LET u == b[off + 1] + 256 * b[off + 2] + 65536 * b[off + 3]
                 + 16777216 * (b[off + 4] % 128)
    IN IF b[off + 4] >= 128 THEN (u - 2147483647) - 1 ELSE u

Invalid == "?"
KnownCodePoint(cp) == \E j \in 1..Len(CodePointTable) : CodePointTable[j][2] = cp

RECURSIVE Utf8Decode(_)
Utf8Decode(b) ==
    IF b = <<>> THEN <<>>
    ELSE IF b[1] < 128
         THEN <<IF KnownCodePoint(b[1]) THEN CharOf(b[1]) ELSE Invalid>>
                  \o Utf8Decode(Tail(b))
    ELSE IF /\ b[1] >= 192 /\ b[1] < 224 /\ Len(b) >= 2
            /\ b[2] >= 128 /\ b[2] < 192
            /\ KnownCodePoint((b[1] - 192) * 64 + (b[2] - 128))
         THEN <<CharOf((b[1] - 192) * 64 + (b[2] - 128))>> \o Utf8Decode(SubSeq(b, 3, Len(b)))
    ELSE <<Invalid>> \o Utf8Decode(Tail(b))

\* "key=value\0" taken apart at the first "=": <<key, value>>, or <<>> when the
\* record does not end with \0 or holds no "=".
ParseEntry(str) ==
    IF str = <<>> \/ str[Len(str)] # NUL
          \/ ~\E i \in 1..(Len(str) - 1) : str[i] = EQ
    THEN <<>>
    ELSE LET i == CHOOSE k \in 1..(Len(str) - 1) :
                      str[k] = EQ /\ \A m \in 1..(k - 1) : str[m] # EQ
         IN <<SubSeq(str, 1, i - 1), SubSeq(str, i + 1, Len(str) - 1)>>

\* The records from offset off on, n of them: the entries, or <<<<>>>> in place of
\* the first that cannot be read.
RECURSIVE ReadRecords(_, _, _)
ReadRecords(b, off, n) ==
    IF n = 0 THEN <<>>
    ELSE IF off + 4 > Len(b) THEN <<<<>>>>
    ELSE LET length == ReadInt32LE(b, off)
         IN IF length < 0 \/ off + 4 + length > Len(b) THEN <<<<>>>>
            ELSE <<ParseEntry(Utf8Decode(SubSeq(b, off + 5, off + 4 + length)))>>
                     \o ReadRecords(b, off + 4 + length, n - 1)

RECURSIVE RecordsEnd(_, _, _)
RecordsEnd(b, off, n) ==
    IF n = 0 \/ off + 4 > Len(b) THEN off
    ELSE RecordsEnd(b, off + 4 + ReadInt32LE(b, off), n - 1)

\* The blob read whole: its count, its entries, and whether it was all well formed
\* and read to its end.
DecodeBlob(b) ==
    IF Len(b) < 4 THEN [ok |-> FALSE, count |-> 0, entries |-> <<>>]
    ELSE LET count == ReadInt32LE(b, 0)
             entries == IF count < 0 THEN <<>> ELSE ReadRecords(b, 4, count)
         IN [ok |-> /\ count >= 0
                    /\ Len(entries) = count
                    /\ \A i \in 1..Len(entries) : entries[i] # <<>>
                    /\ RecordsEnd(b, 4, count) = Len(b),
             count |-> count,
             entries |-> entries]

PairsOf(obj) == {obj[i] : i \in 1..Len(obj)}

-----------------------------------------------------------------------------
(* The claims about concatTracerConfigs, under SpecConcat.                 *)

\* C1: when two TracerConfigs give one variable different values, the aggregation
\* throws the error that names the variable and both values (the value merged
\* first, then the one that differs), and neither the compound spec nor the
\* environment blob is written.
C1_ConflictThrows ==
    (Called /\ HasConflict) =>
        /\ ConcatThrown
        /\ mainTracerConfig.error.type = "IncompatibleValues"
        /\ \E i, j \in 1..Len(tracedLanguages) :
              /\ i < j
              /\ <<mainTracerConfig.error.name, mainTracerConfig.error.first>>
                     \in InputPairs(InputKeys[i])
              /\ <<mainTracerConfig.error.name, mainTracerConfig.error.second>>
                     \in InputPairs(InputKeys[j])
              /\ mainTracerConfig.error.first # mainTracerConfig.error.second
        /\ CompoundSpecPath \notin DOMAIN files
        /\ CompoundEnvPath \notin DOMAIN files

C1_Witness ==
    /\ pc = "concat_done"
    /\ HasConflict
    /\ ConcatThrown
    /\ mainTracerConfig.error.type = "IncompatibleValues"
    /\ ~HasUnreadableSpec

\* C2: when cpp is one of the languages, the compound spec ends with the lines of
\* cpp's spec file, after the lines of every other language's.
C2_CppLinesLast ==
    (ConcatReturned /\ Has(tracedLanguages, Cpp)) =>
        \E o \in Orderings :
            /\ o[Len(o)] = Cpp
            /\ OutBlockLines = LinesInOrder(o)

C2_Witness ==
    /\ pc = "concat_done"
    /\ ConcatReturned
    /\ Len(InputKeys) = 3
    /\ InputKeys[2] = Cpp
    /\ \A i \in 1..3 : FileParams(InputKeys[i]).nLines > 0

\* The input keys with cpp moved to the end and the others in their input order.
StablePartition(keys) ==
    SelectSeq(keys, LAMBDA l : l # Cpp) \o SelectSeq(keys, LAMBDA l : l = Cpp)

\* The input keys with cpp and the last key exchanged.
SwapWithLast(keys) ==
    IF \E i \in 1..Len(keys) : keys[i] = Cpp
    THEN LET c == CHOOSE i \in 1..Len(keys) : keys[i] = Cpp
         IN [i \in 1..Len(keys) |->
                IF i = Len(keys) THEN Cpp ELSE IF i = c THEN keys[Len(keys)] ELSE keys[i]]
    ELSE keys

\* How many languages follow cpp in the input keys (0 without cpp).
AfterCpp(keys) ==
    IF \E i \in 1..Len(keys) : keys[i] = Cpp
    THEN Len(keys) - (CHOOSE i \in 1..Len(keys) : keys[i] = Cpp)
    ELSE 0

NumBlockLines ==
    IF OutBlockLines # <<>> /\ OutBlockLines[Len(OutBlockLines)] = <<>>
    THEN Len(OutBlockLines) - 1 ELSE Len(OutBlockLines)

\* Every input carries exactly the lines it declares and ends without a line break.
InputsExact ==
    \A i \in 1..Len(InputKeys) :
        /\ FileParams(InputKeys[i]).nLines = FileParams(InputKeys[i]).declared
        /\ ~FileParams(InputKeys[i]).trailing

\* C4, as claimed: the compound spec declares the sum of the counts the inputs
\* declare, and exactly that many lines follow.
C4_CountMatchesLines ==
    ConcatReturned =>
        /\ OutLines[2] = NatToString(SumDeclared(InputKeys))
        /\ NumBlockLines = SumDeclared(InputKeys)

\* C4, amended: the compound spec declares the sum of the counts the inputs declare,
\* and the lines that follow are the inputs' lines after their second line: as many
\* as each input carries, with an empty line for each input that ends with a line
\* break. Their number is the declared count when every input carries exactly the
\* lines it declares and ends without a line break.
C4_SumAndLines ==
    ConcatReturned =>
        /\ OutLines[1] = CompoundLogPath
        /\ OutLines[2] = NatToString(SumDeclared(InputKeys))
        /\ \E o \in Orderings : OutBlockLines = LinesInOrder(o)
        /\ InputsExact => Len(OutBlockLines) = SumDeclared(InputKeys)

C4_Witness ==
    /\ pc = "concat_done"
    /\ ConcatReturned
    /\ Len(InputKeys) >= 2
    /\ FileParams(InputKeys[1]).trailing
    /\ FileParams(InputKeys[1]).nLines = FileParams(InputKeys[1]).declared
    /\ FileParams(InputKeys[2]).nLines # FileParams(InputKeys[2]).declared
    /\ NumBlockLines # SumDeclared(InputKeys)

\* The blob holds exactly the entries of env.
BlobHolds(blob, env) ==
    /\ DecodeBlob(blob).ok
    /\ DecodeBlob(blob).count = Cardinality({pair[1] : pair \in PairsOf(env)})
    /\ PairsOf(DecodeBlob(blob).entries) = PairsOf(env)
    /\ \A i, j \in 1..Len(DecodeBlob(blob).entries) :
          i # j => DecodeBlob(blob).entries[i][1] # DecodeBlob(blob).entries[j][1]

C6_BlobRoundTrip ==
    ConcatReturned =>
        /\ BlobHolds(files[CompoundEnvPath], mainTracerConfig.env)
        /\ PairsOf(mainTracerConfig.env)
               = UNION {InputPairs(InputKeys[i]) : i \in 1..Len(InputKeys)}
        /\ Len(mainTracerConfig.env) = Cardinality(PairsOf(mainTracerConfig.env))

C6_Witness ==
    /\ pc = "concat_done"
    /\ ConcatReturned
    /\ Len(mainTracerConfig.env) = 2
    /\ \E i \in 1..2 : \E k \in 1..Len(mainTracerConfig.env[i][2]) :
          mainTracerConfig.env[i][2][k] = Eacute
    /\ Len(InputKeys) = 3
    /\ \A i \in 1..3 : InputConfig(InputKeys[i]).env # <<>>

-----------------------------------------------------------------------------
(* The claims about the runs, under Spec.                                  *)

InInitRun == pc \in {"init_start", "init_loop", "init_done"}

\* The run found languages, and none of them is traced.
NoTracedLanguage ==
    /\ languages # <<>>
    /\ \A i \in 1..Len(languages) : languages[i] \notin {Cpp, Java, Csharp}

TracerVariables == {ODASA_TRACER_CONFIGURATION, LD_PRELOAD, DYLD_INSERT_LIBRARIES}

\* C7: an init run that finds no traced language does not call concatTracerConfigs,
\* writes neither the compound spec nor the environment blob, and exports neither
\* ODASA_TRACER_CONFIGURATION nor a preload variable, nor injects the tracer.
C7_NothingWithoutTracedLanguage ==
    (InInitRun /\ NoTracedLanguage) =>
        /\ mainTracerConfig = NotCalled
        /\ ~HasEvent("init", "concatTracerConfigs")
        /\ ~HasEvent("init", "inject-tracer")
        /\ CompoundSpecPath \notin DOMAIN files
        /\ CompoundEnvPath \notin DOMAIN files
        /\ TracerVariables \cap DOMAIN jobEnv = {}
        /\ TracerVariables \cap DOMAIN procEnv = {}

C7_Witness ==
    /\ pc = "init_done"
    /\ NoTracedLanguage
    /\ Len(languages) = 2
    /\ HasEvent("init", "reportActionSucceeded")
    /\ CODEQL_ACTION_CMD \in DOMAIN jobEnv

\* C8, as claimed: the probe never returns a TracerConfig without a spec path: no
\* language is recorded with a TracerConfig whose spec is undefined.
C8_ProbeNeverWithoutSpec ==
    \A i \in 1..Len(tracedLanguages) : tracedLanguages[i][2].spec # Undefined

\* The probe that log[i] records failed: it threw, or it found no
\* ODASA_TRACER_CONFIGURATION in the dump.
ProbeFailedAt(i) ==
    /\ log[i].run = "init" /\ log[i].ev = "tracerConfig"
    /\ \/ i < Len(log) /\ log[i + 1].ev = "setFailed"
       \/ /\ Has(tracedLanguages, log[i].arg)
          /\ Get(tracedLanguages, log[i].arg).spec = Undefined

\* C9, as claimed: once the probe of a language has failed, no later language is
\* probed, nothing of a compound configuration is written or exported, and the run
\* ends reporting the failure.
C9_ProbeFailFast ==
    \A i \in 1..Len(log) :
        ProbeFailedAt(i) =>
            /\ \A j \in (i + 1)..Len(log) : log[j].ev # "tracerConfig"
            /\ CompoundSpecPath \notin DOMAIN files
            /\ CompoundEnvPath \notin DOMAIN files
            /\ ODASA_TRACER_CONFIGURATION \notin DOMAIN jobEnv
            /\ pc = "init_done" => HasEvent("init", "reportActionFailed")

\* The init run succeeded with a compound configuration.
InitPublished ==
    /\ pc # "init_start" /\ pc # "init_loop"
    /\ HasEvent("init", "reportActionSucceeded")
    /\ ConcatReturned

FinishCommands == {"resolve extractor", "database trace-command", "database finalize",
                   "database analyze"}

\* C10: at the end of an init run that succeeded with traced languages, every merged
\* env entry and the compound spec path are exported; the finish run clears the spec
\* path (exported as empty, deleted from the process) before its first command, every
\* command of the run is executed without it, and it stays cleared to the end of the
\* run.
C10_PublishThenClear ==
    /\ (pc = "init_done" /\ InitPublished) =>
          /\ \A i \in 1..Len(mainTracerConfig.env) :
                /\ EnvGet(jobEnv, mainTracerConfig.env[i][1]) = mainTracerConfig.env[i][2]
                /\ EnvGet(procEnv, mainTracerConfig.env[i][1]) = mainTracerConfig.env[i][2]
          /\ EnvGet(jobEnv, ODASA_TRACER_CONFIGURATION) = CompoundSpecPath
          /\ CompoundSpecPath \in DOMAIN files
    /\ \A i \in 1..Len(log) :
          (log[i].run = "finish" /\ log[i].ev \in FinishCommands) =>
              /\ log[i].odasa = Undefined
              /\ \E j \in 1..(i - 1) : log[j].run = "finish" /\ log[j].ev = "clear"
    /\ HasEvent("finish", "clear") =>
          /\ ODASA_TRACER_CONFIGURATION \notin DOMAIN procEnv
          /\ EnvGet(jobEnv, ODASA_TRACER_CONFIGURATION) = <<>>

C10_Witness ==
    /\ pc = "finish_done"
    /\ InitPublished
    /\ Len(mainTracerConfig.env) >= 2
    /\ HasEvent("finish", "database trace-command")
    /\ HasEvent("finish", "database analyze")
    /\ HasEvent("finish", "reportActionSucceeded")

\* The runs of the workflow that report their status.
Runs == {"init", "autobuild", "finish"}

\* The run has started its status report and has come to its end.
RunEnded(run) ==
    /\ HasEvent(run, "reportActionStarting")
    /\ run = "init" => pc \notin {"init_start", "init_loop"}
    /\ run = "finish" => pc = "finish_done"

\* How many times the run did ev.
Count(run, ev) ==
    Cardinality({i \in 1..Len(log) : log[i].run = run /\ log[i].ev = ev})

\* The terminal status reports of the run.
TerminalReports(run) ==
    Count(run, "reportActionFailed") + Count(run, "reportActionSucceeded")

\* C11, as claimed: a run that has started its status report ends with exactly one
\* terminal report, reportActionFailed or reportActionSucceeded; a run that called
\* core.setFailed ends with reportActionFailed and without reportActionSucceeded.
C11_OneTerminalReport ==
    \A run \in Runs :
        RunEnded(run) =>
            /\ TerminalReports(run) = 1
            /\ HasEvent(run, "setFailed") =>
                  /\ Count(run, "reportActionFailed") = 1
                  /\ Count(run, "reportActionSucceeded") = 0

\* The run ended on one of the two returns that come before the end of the try block
\* without passing through the catch block: init without a language (after
\* core.setFailed), autobuild without a language to build.
ReturnedEarly(run) ==
    \/ /\ run = "init"
       /\ EnvGet(jobEnv, CODEQL_ACTION_LANGUAGES) = <<>>
    \/ /\ run = "autobuild"
       /\ ~HasEvent("autobuild", "resolve extractor")
       /\ ~HasEvent("autobuild", "setFailed")

\* What the runs do keep: never two terminal reports, never a success reported after
\* core.setFailed, and exactly one terminal report on every path but the two early
\* returns, which end with none.
ReportsButForEarlyReturns ==
    \A run \in Runs :
        RunEnded(run) =>
            /\ Count(run, "reportActionSucceeded") = 1 => ~HasEvent(run, "setFailed")
            /\ IF ReturnedEarly(run) THEN TerminalReports(run) = 0
               ELSE /\ TerminalReports(run) = 1
                    /\ HasEvent(run, "setFailed") <=> Count(run, "reportActionFailed") = 1

====
